---- MODULE Spec2Model ----
(***************************************************************************)
(* Notification dispatch of prchecklist (lib/usecase/notification.go).     *)
(*                                                                         *)
(* Text is modelled as a sequence of one-character strings, so that        *)
(* formatting (fmt.Sprintf with %s, %d, %q) is computed character by       *)
(* character.  The single token "U+1F389" stands for the one code point    *)
(* PARTY POPPER.                                                           *)
(***************************************************************************)
EXTENDS Integers, Sequences, FiniteSets, TLC

VARIABLES
    checklist,  \* the *prchecklist.Checklist shared by caller, event and units
    item,       \* the *prchecklist.ChecklistItem an addCheckEvent points to (unused by other events)
    event,      \* the notificationEvent value passed to notifyEvent
    pc,         \* position of the notifyEvent call
    ret,        \* value notifyEvent returned
    chNames,    \* local chNames of notifyEvent
    idx,        \* position of the range loop in chNames
    units,      \* the goroutines launched so far, in launch order
    called,     \* history: checklist and item as they were when notifyEvent was called
    text,       \* result of the last direct slackMessageText call
    cookie,     \* the session cookie the browser holds: the saved session
    request,    \* the last request served, with the cookie it carried
    response,   \* the response to it
    calls       \* the calls it made on the GitHub gateway and the use-case layer

dispatchVars == <<checklist, item, event, pc, ret, chNames, idx, units, called, text>>
webVars == <<cookie, request, response, calls>>
vars == <<checklist, item, event, pc, ret, chNames, idx, units, called, text,
          cookie, request, response, calls>>

\* ------------------------------------------------------------------ bounds

MaxNames == 2
MaxTitleLen == 2
MaxNumber == 11

\* ------------------------------------------------------------- formatting

Nil == "nil"

\* A pointer is the empty sequence (nil) or a sequence holding the struct it points to.
NilPtr == <<>>
Deref(p) == p[1]
NoText == <<"(none)">>

Digit == <<"0", "1", "2", "3", "4", "5", "6", "7", "8", "9">>

RECURSIVE Itoa(_)
Itoa(n) ==
    IF n < 0 THEN <<"-">> \o Itoa(0 - n)
    ELSE IF n < 10 THEN <<Digit[n + 1]>>
    ELSE Itoa(n \div 10) \o <<Digit[(n % 10) + 1]>>

EscapeChar(c) ==
    CASE c = "\"" -> <<"\\", "\"">>
      [] c = "\\" -> <<"\\", "\\">>
      [] c = "\n" -> <<"\\", "n">>
      [] OTHER -> <<c>>

RECURSIVE Escape(_)
Escape(s) == IF s = <<>> THEN <<>> ELSE EscapeChar(Head(s)) \o Escape(Tail(s))

Quote(s) == <<"\"">> \o Escape(s) \o <<"\"">>

FormatVerb(verb, arg) ==
    CASE verb = "s" -> arg
      [] verb = "d" -> Itoa(arg)
      [] verb = "q" -> Quote(arg)

RECURSIVE SprintfFrom(_, _, _, _)
SprintfFrom(format, i, args, k) ==
    IF i > Len(format) THEN <<>>
    ELSE IF format[i] = "%" /\ i < Len(format)
         THEN FormatVerb(format[i + 1], args[k]) \o SprintfFrom(format, i + 2, args, k + 1)
         ELSE <<format[i]>> \o SprintfFrom(format, i + 1, args, k)

Sprintf(format, args) == SprintfFrom(format, 1, args, 1)

\* ------------------------------------------------------------ event model

eventTypeInvalid == 0
eventTypeOnCheck == 1
eventTypeOnComplete == 2

\* The request context: the origin BuildURL resolves paths against.
Ctx == [Origin |-> <<"h", ":", "/", "/", "x">>]

BuildURL(ctx, path) == ctx.Origin \o path

Path(cl) == cl.Path

ChecklistString(cl) == cl.Title

AddCheckFormat ==
    <<"[", "<", "%", "s", "|", "%", "s", ">", "]", " ", "#", "%", "d", " ", "%", "q",
      " ", "c", "h", "e", "c", "k", "e", "d", " ", "b", "y", " ", "%", "s">>

CompleteFormat ==
    <<"[", "<", "%", "s", "|", "%", "s", ">", "]", " ",
      "C", "h", "e", "c", "k", "l", "i", "s", "t", " ",
      "c", "o", "m", "p", "l", "e", "t", "e", "d", "!", " ",
      ":", "t", "a", "d", "a", ":">>

AddCheckFormatUnquoted ==
    <<"[", "<", "%", "s", "|", "%", "s", ">", "]", " ", "#", "%", "d", " ", "\"", "%", "s", "\"",
      " ", "c", "h", "e", "c", "k", "e", "d", " ", "b", "y", " ", "%", "s">>

addCheckTextUnquoted(ctx, cl, it, user) ==
    Sprintf(AddCheckFormatUnquoted,
            <<BuildURL(ctx, Path(cl)), ChecklistString(cl), it.Number, it.Title, user.Login>>)

addCheckText(ctx, cl, it, user) ==
    Sprintf(AddCheckFormat,
            <<BuildURL(ctx, Path(cl)), ChecklistString(cl), it.Number, it.Title, user.Login>>)

completeTextSwapped(ctx, cl) ==
    Sprintf(CompleteFormat, <<ChecklistString(cl), BuildURL(ctx, Path(cl))>>)

completeText(ctx, cl) ==
    Sprintf(CompleteFormat, <<BuildURL(ctx, Path(cl)), ChecklistString(cl)>>)

\* event.slackMessageText(ctx): dispatch on the dynamic type of the event.  The
\* checklist and the item are read through the event's pointers (cl, it); the
\* user was copied into the event when it was built.
slackMessageText(ctx, ev, cl, it) ==
    CASE ev.kind = "addCheck" -> addCheckText(ctx, cl, it, ev.user)
      [] ev.kind = "complete" -> completeText(ctx, cl)
      [] OTHER -> <<"?">>

eventType(ev) ==
    CASE ev.kind = "addCheck" -> eventTypeOnCheck
      [] ev.kind = "complete" -> eventTypeOnComplete
      [] OTHER -> ev.etype

\* ------------------------------------------------------------- dispatcher

\* The outcomes of http.PostForm: a response with a status code, or a
\* transport error.
Responses ==
    [kind : {"status"}, code : {200, 500}] \cup {[kind |-> "error", code |-> 0]}

\* httputil.Succeeding(resp, err): an error for a transport error or a status
\* outside 2xx.
Succeeding(resp) == resp.kind = "status" /\ resp.code >= 200 /\ resp.code < 300

\* json.Marshal of a string: double quote, backslash and newline get a
\* backslash escape, and <, > and & are written as \u003c, \u003e and \u0026.
JSONEscapeChar(c) ==
    CASE c = "\"" -> <<"\\", "\"">>
      [] c = "\\" -> <<"\\", "\\">>
      [] c = "\n" -> <<"\\", "n">>
      [] c = "<" -> <<"\\", "u", "0", "0", "3", "c">>
      [] c = ">" -> <<"\\", "u", "0", "0", "3", "e">>
      [] c = "&" -> <<"\\", "u", "0", "0", "2", "6">>
      [] OTHER -> <<c>>

RECURSIVE JSONEscapeFrom(_, _)
JSONEscapeFrom(s, i) ==
    IF i > Len(s) THEN <<>> ELSE JSONEscapeChar(s[i]) \o JSONEscapeFrom(s, i + 1)

\* The string is evaluated once, then escaped character by character.
JSONEscape(s) == CHOOSE r \in {JSONEscapeFrom(v, 1) : v \in {s}} : TRUE

\* json.Marshal(&slackMessagePayload{Text: t}): {"text":"..."}
jsonMarshal(payload) ==
    <<"{", "\"", "t", "e", "x", "t", "\"", ":", "\"">> \o JSONEscape(payload.Text) \o <<"\"", "}">>

\* url.Values{"payload": {string(payload)}}
formValues(payload) == [payload |-> <<payload>>]

newUnit(name, ch) ==
    [name |-> name, url |-> ch.URL, pc |-> "launched", text |-> NoText,
     attempts |-> 0, err |-> Nil, req |-> NilPtr, log |-> NilPtr]

\* notifyEvent up to the range loop: the nil check on checklist.Config and
\* the switch on event.eventType().
notifyEventBeginNilIsError(cl, ev) ==
    IF cl.Config = NilPtr
    THEN [pc |-> "returned", ret |-> "error: no config", chNames |-> <<>>]
    ELSE CASE eventType(ev) = eventTypeOnCheck ->
                [pc |-> "loop", ret |-> Nil, chNames |-> Deref(cl.Config).OnCheck]
           [] eventType(ev) = eventTypeOnComplete ->
                [pc |-> "loop", ret |-> Nil, chNames |-> Deref(cl.Config).OnComplete]
           [] OTHER ->
                [pc |-> "returned", ret |-> "unknown event type", chNames |-> <<>>]

notifyEventBeginNoDefault(cl, ev) ==
    IF cl.Config = NilPtr
    THEN [pc |-> "returned", ret |-> Nil, chNames |-> <<>>]
    ELSE CASE eventType(ev) = eventTypeOnComplete ->
                [pc |-> "loop", ret |-> Nil, chNames |-> Deref(cl.Config).OnComplete]
           [] OTHER ->
                [pc |-> "loop", ret |-> Nil, chNames |-> Deref(cl.Config).OnCheck]

notifyEventBeginSwapped(cl, ev) ==
    IF cl.Config = NilPtr
    THEN [pc |-> "returned", ret |-> Nil, chNames |-> <<>>]
    ELSE CASE eventType(ev) = eventTypeOnCheck ->
                [pc |-> "loop", ret |-> Nil, chNames |-> Deref(cl.Config).OnComplete]
           [] eventType(ev) = eventTypeOnComplete ->
                [pc |-> "loop", ret |-> Nil, chNames |-> Deref(cl.Config).OnCheck]
           [] OTHER ->
                [pc |-> "returned", ret |-> "unknown event type", chNames |-> <<>>]

notifyEventBegin(cl, ev) ==
    IF cl.Config = NilPtr
    THEN [pc |-> "returned", ret |-> Nil, chNames |-> <<>>]
    ELSE CASE eventType(ev) = eventTypeOnCheck ->
                [pc |-> "loop", ret |-> Nil, chNames |-> Deref(cl.Config).OnCheck]
           [] eventType(ev) = eventTypeOnComplete ->
                [pc |-> "loop", ret |-> Nil, chNames |-> Deref(cl.Config).OnComplete]
           [] OTHER ->
                [pc |-> "returned", ret |-> "unknown event type", chNames |-> <<>>]

\* One iteration of `for _, name := range chNames`: resolve the name in the
\* channel map, skip it when absent, otherwise start a goroutine that holds
\* this iteration's name and ch.
loopBodyDedup(config, names, i, us) ==
    LET name == names[i] IN
    IF name \notin DOMAIN config.Channels \/ \E k \in 1..Len(us) : us[k].name = name
    THEN [units |-> us, idx |-> i + 1, config |-> config]
    ELSE [units |-> Append(us, newUnit(name, config.Channels[name])), idx |-> i + 1,
          config |-> config]

loopBodyBreakOnMissing(config, names, i, us) ==
    LET name == names[i] IN
    IF name \notin DOMAIN config.Channels
    THEN [units |-> us, idx |-> Len(names) + 1, config |-> config]
    ELSE [units |-> Append(us, newUnit(name, config.Channels[name])), idx |-> i + 1,
          config |-> config]

\* The closures share one ch variable: a goroutine that has not sent yet
\* posts to the channel of the latest iteration.
loopBodySharedCh(config, names, i, us) ==
    LET name == names[i] IN
    IF name \notin DOMAIN config.Channels
    THEN [units |-> us, idx |-> i + 1, config |-> config]
    ELSE [units |-> Append([k \in 1..Len(us) |->
                               IF us[k].pc = "launched"
                               THEN [us[k] EXCEPT !.url = config.Channels[name].URL]
                               ELSE us[k]],
                           newUnit(name, config.Channels[name])),
          idx |-> i + 1, config |-> config]

\* A resolved name is deleted from the channel map.
loopBodyDeleteResolved(config, names, i, us) ==
    LET name == names[i] IN
    IF name \notin DOMAIN config.Channels
    THEN [units |-> us, idx |-> i + 1, config |-> config]
    ELSE [units |-> Append(us, newUnit(name, config.Channels[name])), idx |-> i + 1,
          config |-> [config EXCEPT !.Channels =
                          [n \in DOMAIN config.Channels \ {name} |-> config.Channels[n]]]]

\* Only the first resolvable name of the list gets a unit.
loopBodyFirstOnly(config, names, i, us) ==
    LET name == names[i] IN
    IF name \notin DOMAIN config.Channels
    THEN [units |-> us, idx |-> i + 1, config |-> config]
    ELSE [units |-> Append(us, newUnit(name, config.Channels[name])),
          idx |-> Len(names) + 1, config |-> config]

loopBody(config, names, i, us) ==
    LET name == names[i] IN
    IF name \notin DOMAIN config.Channels
    THEN [units |-> us, idx |-> i + 1, config |-> config]
    ELSE [units |-> Append(us, newUnit(name, config.Channels[name])), idx |-> i + 1,
          config |-> config]

\* `return nil` after the loop: nothing joins the goroutines.
returnGuardJoin(us) == \A k \in 1..Len(us) : us[k].pc = "done"

returnGuard(us) == TRUE

\* The goroutine up to http.PostForm: render the text through the event,
\* marshal it, send the POST.
unitSend(u, ctx, ev, cl, it) ==
    LET t == slackMessageText(ctx, ev, cl, it) IN
    [u EXCEPT !.text = t,
              !.attempts = @ + 1,
              !.req = <<[method |-> "POST", url |-> u.url,
                         form |-> formValues(jsonMarshal([Text |-> t]))]>>,
              !.pc = "posting"]

\* The goroutine after http.PostForm returned: log an error, then end.
unitsAfterResponseCancelOthers(us, k, resp) ==
    [j \in 1..Len(us) |->
        IF j = k
        THEN [us[j] EXCEPT !.pc = "done", !.err = IF Succeeding(resp) THEN Nil ELSE "failed"]
        ELSE IF ~Succeeding(resp) /\ us[j].pc = "launched"
             THEN [us[j] EXCEPT !.pc = "done", !.err = "cancelled"]
             ELSE us[j]]

unitsAfterResponseRetry(us, k, resp) ==
    [us EXCEPT ![k] = IF Succeeding(resp)
                      THEN [@ EXCEPT !.pc = "done"]
                      ELSE [@ EXCEPT !.pc = "launched", !.err = "failed"]]

\* The error httputil.Succeeding(http.PostForm(ch.URL, v)) returns: the
\* transport error of PostForm, a *url.Error naming the URL, or the error
\* Succeeding makes of a status outside 2xx.
postError(u, resp) ==
    [kind |-> resp.kind, code |-> resp.code,
     url |-> IF resp.kind = "error" THEN u.url ELSE <<>>]

\* log.Printf("posting Slack webhook: %s", err)
logEntry(u, resp) == [format |-> "posting Slack webhook: %s", args |-> <<postError(u, resp)>>]

unitsAfterResponse(us, k, resp) ==
    [us EXCEPT ![k] = [@ EXCEPT !.pc = "done",
                                !.err = IF Succeeding(resp) THEN Nil ELSE "failed",
                                !.log = IF Succeeding(resp) THEN NilPtr
                                        ELSE <<logEntry(us[k], resp)>>]]

\* ------------------------------------------------------------- web layer

\* The longest session a cookie holds, in the units of EncodedSize; the
\* cookie store refuses to save a longer one.
MaxCookieSize == 3

NoErr == [kind |-> "nil", code |-> 0]
SomeErr == [kind |-> "error", code |-> 0]
httpError(code) == [kind |-> "httpError", code |-> code]
Outcomes == {NoErr, SomeErr}

\* sess.Values: a key that is absent holds NilPtr.
EmptyValues == [oauthState |-> NilPtr, githubUser |-> NilPtr]
NoCookie == [kind |-> "none", values |-> EmptyValues]
BadCookie == [kind |-> "bad", values |-> EmptyValues]
SessionCookie(values) == [kind |-> "session", values |-> values]

OAuthStates == {"s1", "s2"}
\* The state parameter of a callback: a state, or "" when it is missing.
QueryStates == OAuthStates \cup {""}
Token == <<"tok">>
GitHubUsers ==
    {[Login |-> "alice", AvatarURL |-> <<>>, Token |-> Token],
     [Login |-> "bob", AvatarURL |-> <<>>, Token |-> NilPtr],
     [Login |-> "carol", AvatarURL |-> <<"x", "x">>, Token |-> Token],
     [Login |-> "dave", AvatarURL |-> <<"x", "x", "x">>, Token |-> Token]}

EncodedSize(values) ==
    (IF values.oauthState = NilPtr THEN 0 ELSE 1)
      + (IF values.githubUser = NilPtr THEN 0 ELSE 1 + Len(Deref(values.githubUser).AvatarURL))

\* sessionStore.Get(req, sessionName): the session of the cookie; a new
\* session when there is no cookie; a new session and an error when the
\* cookie does not decode.
sessionGet(c) ==
    CASE c.kind = "session" -> [values |-> c.values, err |-> NoErr]
      [] c.kind = "none" -> [values |-> EmptyValues, err |-> NoErr]
      [] OTHER -> [values |-> EmptyValues, err |-> SomeErr]

\* sessionStore.Save / sess.Save: the session becomes the cookie, or an error
\* and no cookie is set when the encoded session is too long.
sessionSave(c, values) ==
    IF EncodedSize(values) > MaxCookieSize
    THEN [err |-> SomeErr, cookie |-> c]
    ELSE [err |-> NoErr, cookie |-> SessionCookie(values)]

\* A call on a collaborator and the error it returned.
Call(fn, err) == [fn |-> fn, err |-> err]
\* What a handler hands back: its error, the status it wrote itself, the
\* cookie the browser holds afterwards and the calls it made.
Result(err, written, c, cs) == [err |-> err, written |-> written, cookie |-> c, calls |-> cs]

\* httpHandler.ServeHTTP: the status the client sees.
ServeHTTP(r) ==
    IF r.err = NoErr THEN r.written
    ELSE IF r.err.kind = "httpError" THEN r.err.code
    ELSE 500

handleAuth(c, rnd) ==
    LET sess == sessionGet(c) IN
    IF rnd.err # NoErr THEN Result(rnd.err, 0, c, <<>>)
    ELSE LET saved == sessionSave(c, [sess.values EXCEPT !.oauthState = <<rnd.state>>]) IN
         IF saved.err # NoErr THEN Result(saved.err, 0, c, <<>>)
         ELSE Result(NoErr, 302, saved.cookie, <<Call("AuthCodeURL", NoErr)>>)

\* The state of the request is not compared with the session's.
handleAuthCallbackNoStateCheck(c, state, auth, addUserErr) ==
    LET sess == sessionGet(c) IN
    IF sess.err # NoErr THEN Result(sess.err, 0, c, <<>>)
    ELSE
      LET v1 == [sess.values EXCEPT !.oauthState = NilPtr]
          cs1 == <<Call("AuthenticateUser", auth.err)>>
      IN
      IF auth.err # NoErr THEN Result(auth.err, 0, c, cs1)
      ELSE
        LET v2 == [v1 EXCEPT !.githubUser = auth.user]
            cs2 == Append(cs1, Call("AddUser", addUserErr))
        IN
        IF addUserErr # NoErr THEN Result(addUserErr, 0, c, cs2)
        ELSE LET saved == sessionSave(c, v2) IN
             IF saved.err # NoErr THEN Result(saved.err, 0, c, cs2)
             ELSE Result(NoErr, 302, saved.cookie, cs2)

\* oauthState is left in the session.
handleAuthCallbackKeepState(c, state, auth, addUserErr) ==
    LET sess == sessionGet(c) IN
    IF sess.err # NoErr THEN Result(sess.err, 0, c, <<>>)
    ELSE IF <<state>> # sess.values.oauthState THEN Result(httpError(400), 0, c, <<>>)
    ELSE
      LET cs1 == <<Call("AuthenticateUser", auth.err)>> IN
      IF auth.err # NoErr THEN Result(auth.err, 0, c, cs1)
      ELSE
        LET v2 == [sess.values EXCEPT !.githubUser = auth.user]
            cs2 == Append(cs1, Call("AddUser", addUserErr))
        IN
        IF addUserErr # NoErr THEN Result(addUserErr, 0, c, cs2)
        ELSE LET saved == sessionSave(c, v2) IN
             IF saved.err # NoErr THEN Result(saved.err, 0, c, cs2)
             ELSE Result(NoErr, 302, saved.cookie, cs2)

handleAuthCallback(c, state, auth, addUserErr) ==
    LET sess == sessionGet(c) IN
    IF sess.err # NoErr THEN Result(sess.err, 0, c, <<>>)
    ELSE IF <<state>> # sess.values.oauthState THEN Result(httpError(400), 0, c, <<>>)
    ELSE
      LET v1 == [sess.values EXCEPT !.oauthState = NilPtr]
          cs1 == <<Call("AuthenticateUser", auth.err)>>
      IN
      IF auth.err # NoErr THEN Result(auth.err, 0, c, cs1)
      ELSE
        LET v2 == [v1 EXCEPT !.githubUser = auth.user]
            cs2 == Append(cs1, Call("AddUser", addUserErr))
        IN
        IF addUserErr # NoErr THEN Result(addUserErr, 0, c, cs2)
        ELSE LET saved == sessionSave(c, v2) IN
             IF saved.err # NoErr THEN Result(saved.err, 0, c, cs2)
             ELSE Result(NoErr, 302, saved.cookie, cs2)

handleAuthClear(c) == Result(NoErr, 302, NoCookie, <<>>)

\* A user without a token passes for authenticated.
getAuthInfoNoTokenCheck(c) ==
    LET sess == sessionGet(c) IN
    IF sess.err # NoErr THEN [user |-> NilPtr, err |-> NoErr, cookie |-> c]
    ELSE [user |-> sess.values.githubUser, err |-> NoErr, cookie |-> c]

getAuthInfo(c) ==
    LET sess == sessionGet(c) IN
    IF sess.err # NoErr THEN [user |-> NilPtr, err |-> NoErr, cookie |-> c]
    ELSE IF sess.values.githubUser = NilPtr THEN [user |-> NilPtr, err |-> NoErr, cookie |-> c]
    ELSE IF Deref(sess.values.githubUser).Token = NilPtr
         THEN LET saved == sessionSave(c, [sess.values EXCEPT !.githubUser = NilPtr]) IN
              [user |-> NilPtr, err |-> saved.err, cookie |-> saved.cookie]
    ELSE [user |-> sess.values.githubUser, err |-> NoErr, cookie |-> c]

handleAPIMe(c) ==
    LET a == getAuthInfo(c) IN Result(NoErr, 200, a.cookie, <<>>)

handleAPIChecklist(c, decodeErr, ucErr) ==
    LET a == getAuthInfo(c) IN
    IF a.err # NoErr THEN Result(a.err, 0, a.cookie, <<>>)
    ELSE IF a.user = NilPtr THEN Result(httpError(403), 0, a.cookie, <<>>)
    ELSE IF decodeErr # NoErr THEN Result(decodeErr, 0, a.cookie, <<>>)
    ELSE IF ucErr # NoErr THEN Result(ucErr, 0, a.cookie, <<Call("GetChecklist", ucErr)>>)
    ELSE Result(NoErr, 200, a.cookie, <<Call("GetChecklist", NoErr)>>)

handleAPICheck(c, method, parseErr, decodeErr, ucErr) ==
    LET a == getAuthInfo(c) IN
    IF a.err # NoErr THEN Result(a.err, 0, a.cookie, <<>>)
    ELSE IF a.user = NilPtr THEN Result(httpError(403), 0, a.cookie, <<>>)
    ELSE IF parseErr # NoErr THEN Result(parseErr, 0, a.cookie, <<>>)
    ELSE IF decodeErr # NoErr THEN Result(decodeErr, 0, a.cookie, <<>>)
    ELSE LET fn == CASE method = "PUT" -> "AddCheck"
                     [] method = "DELETE" -> "RemoveCheck"
                     [] OTHER -> "none"
         IN
         IF fn = "none" THEN Result(httpError(405), 0, a.cookie, <<>>)
         ELSE IF ucErr # NoErr THEN Result(ucErr, 0, a.cookie, <<Call(fn, ucErr)>>)
         ELSE Result(NoErr, 200, a.cookie, <<Call(fn, NoErr)>>)

Methods == {"GET", "PUT", "DELETE"}
\* router.Handle("/api/check", ...).Methods("PUT", "DELETE")
Routed(path, method) == path = "/api/check" => method \in {"PUT", "DELETE"}

Req(path, method, state, c) == [path |-> path, method |-> method, state |-> state, cookie |-> c]
NoRequest == Req("none", "GET", "", NoCookie)

\* No request has been served.
WebIdle ==
    /\ cookie = NoCookie
    /\ request = NoRequest
    /\ response = [status |-> 0]
    /\ calls = <<>>

\* --------------------------------------------------------------- inputs

Names == {"a", "b"}

RECURSIVE SeqsUpTo(_, _)
SeqsUpTo(S, n) ==
    IF n = 0 THEN {<<>>}
    ELSE LET shorter == SeqsUpTo(S, n - 1)
         IN shorter \cup {Append(s, x) : s \in shorter, x \in S}

HookURL(name) == <<"hook-" \o name>>

ChannelMaps == {[n \in S |-> [URL |-> HookURL(n)]] : S \in SUBSET Names}

\* Each list holds up to MaxNames names; to keep the two lists from multiplying
\* the configurations, together they hold no more names than that.
Configs ==
    {c \in [OnCheck : SeqsUpTo(Names, MaxNames), OnComplete : SeqsUpTo(Names, MaxNames),
            Channels : ChannelMaps] :
        Len(c.OnCheck) + Len(c.OnComplete) <= MaxNames}

ChecklistTitles == {<<"T">>, <<"U">>}
ItemTitles == {<<"F", "i", "x">>, <<"W", "i", "p">>}
DefaultPath == <<"/", "o", "/", "r", "/", "p", "u", "l", "l", "/", "1">>
DefaultUser == [Login |-> <<"a", "l", "i", "c", "e">>]

Events ==
    {[kind |-> "addCheck", user |-> DefaultUser, etype |-> eventTypeOnCheck],
     [kind |-> "complete", user |-> DefaultUser, etype |-> eventTypeOnComplete],
     [kind |-> "other", user |-> DefaultUser, etype |-> eventTypeInvalid],
     [kind |-> "other", user |-> DefaultUser, etype |-> 3]}

\* ---------------------------------------------------------------- actions

Init ==
    /\ \E c \in {NilPtr} \cup {<<c>> : c \in Configs} :
          checklist = [Title |-> <<"T">>, Path |-> DefaultPath, Config |-> c]
    /\ item = [Number |-> 5, Title |-> <<"F", "i", "x">>]
    /\ event \in Events
    /\ pc = "start"
    /\ ret = Nil
    /\ chNames = <<>>
    /\ idx = 1
    /\ units = <<>>
    /\ called = NilPtr
    /\ text = NoText
    /\ WebIdle

NotifyEventEnter ==
    /\ pc = "start"
    /\ LET b == notifyEventBegin(checklist, event) IN
          /\ pc' = b.pc
          /\ ret' = b.ret
          /\ chNames' = b.chNames
    /\ called' = <<[checklist |-> checklist, item |-> item]>>
    /\ UNCHANGED <<checklist, item, event, idx, units, text>>
    /\ UNCHANGED webVars

LoopIter ==
    /\ pc = "loop"
    /\ idx <= Len(chNames)
    /\ LET r == loopBody(Deref(checklist.Config), chNames, idx, units) IN
          /\ units' = r.units
          /\ idx' = r.idx
          /\ checklist' = [checklist EXCEPT !.Config = <<r.config>>]
    /\ UNCHANGED <<item, event, pc, ret, chNames, called, text>>
    /\ UNCHANGED webVars

NotifyEventReturn ==
    /\ pc = "loop"
    /\ idx > Len(chNames)
    /\ returnGuard(units)
    /\ pc' = "returned"
    /\ ret' = Nil
    /\ UNCHANGED <<checklist, item, event, chNames, idx, units, called, text>>
    /\ UNCHANGED webVars

UnitSend(k) ==
    /\ units[k].pc = "launched"
    /\ units' = [units EXCEPT ![k] = unitSend(@, Ctx, event, checklist, item)]
    /\ UNCHANGED <<checklist, item, event, pc, ret, chNames, idx, called, text>>
    /\ UNCHANGED webVars

UnitResponse(k) ==
    /\ units[k].pc = "posting"
    /\ \E resp \in Responses : units' = unitsAfterResponse(units, k, resp)
    /\ UNCHANGED <<checklist, item, event, pc, ret, chNames, idx, called, text>>
    /\ UNCHANGED webVars

\* The caller owns the checklist and the item the event points to, and may
\* change them once notifyEvent has returned; the model lets it make one
\* edit, of the one or of the other.
MutateChecklist ==
    /\ pc = "returned"
    /\ checklist = Deref(called).checklist
    /\ item = Deref(called).item
    /\ \E t \in ChecklistTitles \ {checklist.Title} :
          checklist' = [checklist EXCEPT !.Title = t]
    /\ UNCHANGED <<item, event, pc, ret, chNames, idx, units, called, text>>
    /\ UNCHANGED webVars

MutateItem ==
    /\ pc = "returned"
    /\ event.kind = "addCheck"
    /\ item = Deref(called).item
    /\ checklist = Deref(called).checklist
    /\ \E t \in ItemTitles \ {item.Title} : item' = [item EXCEPT !.Title = t]
    /\ UNCHANGED <<checklist, event, pc, ret, chNames, idx, units, called, text>>
    /\ UNCHANGED webVars

DispatcherNext == NotifyEventEnter \/ LoopIter \/ NotifyEventReturn

Next ==
    \/ NotifyEventEnter
    \/ LoopIter
    \/ NotifyEventReturn
    \/ \E k \in 1..Len(units) : UnitSend(k)
    \/ \E k \in 1..Len(units) : UnitResponse(k)
    \/ MutateChecklist
    \/ MutateItem

Spec == Init /\ [][Next]_vars

\* ------------------------------------------------- rendering, called directly

TitleChars == {"a", " ", "\"", "\\", "\n"}
RenderChecklistTitles == {<<"T">>, <<"m", "y", " ", "P", "R">>}
RenderLogins == {<<"a", "l", "i", "c", "e">>, <<"b", "o">>}

InitRender ==
    /\ \E t \in RenderChecklistTitles :
          checklist = [Title |-> t, Path |-> DefaultPath, Config |-> NilPtr]
    /\ \E n \in 1..MaxNumber, t \in SeqsUpTo(TitleChars, MaxTitleLen) :
          item = [Number |-> n, Title |-> t]
    /\ \E k \in {"addCheck", "complete"}, l \in RenderLogins :
          event = [kind |-> k, user |-> [Login |-> l],
                   etype |-> IF k = "addCheck" THEN eventTypeOnCheck ELSE eventTypeOnComplete]
    /\ pc = "start"
    /\ ret = Nil
    /\ chNames = <<>>
    /\ idx = 1
    /\ units = <<>>
    /\ called = NilPtr
    /\ text = NoText
    /\ WebIdle

CallSlackMessageText ==
    /\ text = NoText
    /\ text' = slackMessageText(Ctx, event, checklist, item)
    /\ UNCHANGED <<checklist, item, event, pc, ret, chNames, idx, units, called>>
    /\ UNCHANGED webVars

NextRender == CallSlackMessageText

SpecRender == InitRender /\ [][NextRender]_vars

\* ------------------------------------------------------ requests of a browser

\* Serve request rq with the handler's result r: the client sees the status,
\* the browser keeps the cookie.
Serve(rq, r) ==
    /\ request' = rq
    /\ response' = [status |-> ServeHTTP(r)]
    /\ cookie' = r.cookie
    /\ calls' = r.calls
    /\ UNCHANGED dispatchVars

\* makeRandomString: a fresh state, or the error of rand.Read.
RandomStrings == {[err |-> SomeErr, state |-> ""]} \cup {[err |-> NoErr, state |-> st] : st \in OAuthStates}
\* web.github.AuthenticateUser: a user, or an error.
AuthResults == {[err |-> SomeErr, user |-> NilPtr]} \cup {[err |-> NoErr, user |-> <<u>>] : u \in GitHubUsers}

HandleAuth ==
    \E rnd \in RandomStrings :
        Serve(Req("/auth", "GET", "", cookie), handleAuth(cookie, rnd))

HandleAuthCallback ==
    \E state \in QueryStates, auth \in AuthResults, addUserErr \in Outcomes :
        Serve(Req("/auth/callback", "GET", state, cookie),
              handleAuthCallback(cookie, state, auth, addUserErr))

HandleAuthClear ==
    Serve(Req("/auth/clear", "GET", "", cookie), handleAuthClear(cookie))

HandleAPIMe ==
    Serve(Req("/api/me", "GET", "", cookie), handleAPIMe(cookie))

HandleAPIChecklist ==
    \E method \in Methods, decodeErr \in Outcomes, ucErr \in Outcomes :
        Serve(Req("/api/checklist", method, "", cookie),
              handleAPIChecklist(cookie, decodeErr, ucErr))

HandleAPICheck ==
    \E method \in Methods, parseErr \in Outcomes, decodeErr \in Outcomes, ucErr \in Outcomes :
        /\ Routed("/api/check", method)
        /\ Serve(Req("/api/check", method, "", cookie),
                 handleAPICheck(cookie, method, parseErr, decodeErr, ucErr))

\* The browser comes with a cookie that does not decode: forged, cut, or
\* signed with another secret.
BrowserHoldsBadCookie ==
    /\ cookie # BadCookie
    /\ cookie' = BadCookie
    /\ request' = NoRequest
    /\ response' = [status |-> 0]
    /\ calls' = <<>>
    /\ UNCHANGED dispatchVars

InitWeb ==
    /\ WebIdle
    /\ checklist = [Title |-> <<"T">>, Path |-> DefaultPath, Config |-> NilPtr]
    /\ item = [Number |-> 5, Title |-> <<"F", "i", "x">>]
    /\ event = [kind |-> "addCheck", user |-> DefaultUser, etype |-> eventTypeOnCheck]
    /\ pc = "start"
    /\ ret = Nil
    /\ chNames = <<>>
    /\ idx = 1
    /\ units = <<>>
    /\ called = NilPtr
    /\ text = NoText

NextWeb ==
    \/ HandleAuth
    \/ HandleAuthCallback
    \/ HandleAuthClear
    \/ HandleAPIMe
    \/ HandleAPIChecklist
    \/ HandleAPICheck
    \/ BrowserHoldsBadCookie

SpecWeb == InitWeb /\ [][NextWeb]_vars

\* ------------------------------------------------------------------ claims

CanonicalURL == BuildURL(Ctx, Path(checklist))
DisplayTitle == ChecklistString(checklist)
LinkPart == <<"[", "<">> \o CanonicalURL \o <<"|">> \o DisplayTitle \o <<">", "]", " ">>
CompletedWords ==
    <<"C", "h", "e", "c", "k", "l", "i", "s", "t", " ",
      "c", "o", "m", "p", "l", "e", "t", "e", "d", "!", " ">>
CheckedByWords == <<" ", "c", "h", "e", "c", "k", "e", "d", " ", "b", "y", " ">>
PlainItem == <<"\"">> \o item.Title \o <<"\"">>
NeedsEscape(s) == \E i \in 1..Len(s) : s[i] \in {"\"", "\\", "\n"}

\* C9 as stated: the text of a ChecklistCompleted event is
\* `[<URL|TITLE>] Checklist completed! ` followed by the character U+1F389.
C9_Original ==
    (event.kind = "complete" /\ text # NoText)
        => text = LinkPart \o CompletedWords \o <<"U+1F389">>

\* C9 amended: the text of a ChecklistCompleted event is
\* `[<URL|TITLE>] Checklist completed! :tada:`, the marker being the six
\* ASCII characters of the emoji shortcode.
C9_CompleteText ==
    (event.kind = "complete" /\ text # NoText)
        => text = LinkPart \o CompletedWords \o <<":", "t", "a", "d", "a", ":">>

C9_Witness == event.kind = "complete" /\ text # NoText /\ Len(DisplayTitle) > 1

\* C10 as stated: the text of a CheckAdded event is
\* `[<URL|TITLE>] #N "ITEM" checked by LOGIN` with the item title verbatim
\* between the double quotes.
C10_Original ==
    (event.kind = "addCheck" /\ text # NoText)
        => text = LinkPart \o <<"#">> \o Itoa(item.Number) \o <<" ">> \o PlainItem
                    \o CheckedByWords \o event.user.Login

\* C10 amended: the text of a CheckAdded event is
\* `[<URL|TITLE>] #N Q checked by LOGIN`, Q being the item title in double
\* quotes with every double quote and backslash preceded by a backslash and a
\* newline written \n; Q is "ITEM" verbatim when the title has none of these.
C10_AddCheckText ==
    (event.kind = "addCheck" /\ text # NoText)
        => /\ text = LinkPart \o <<"#">> \o Itoa(item.Number) \o <<" ">> \o Quote(item.Title)
                        \o CheckedByWords \o event.user.Login
           /\ ~NeedsEscape(item.Title) => Quote(item.Title) = PlainItem
           /\ NeedsEscape(item.Title) => Len(Quote(item.Title)) > Len(PlainItem)

C10_Witness ==
    /\ event.kind = "addCheck"
    /\ text # NoText
    /\ item.Title = <<"a", "\"">>
    /\ item.Number > 9

\* ---- claims about notifyEvent

HasConfig == checklist.Config # NilPtr
Config == Deref(checklist.Config)
KnownKind == eventType(event) \in {eventTypeOnCheck, eventTypeOnComplete}
\* The channel-name list the configuration holds for the event's kind.
ConfiguredNames ==
    IF eventType(event) = eventTypeOnCheck THEN Config.OnCheck ELSE Config.OnComplete
InMap(n) == n \in DOMAIN Config.Channels
CountIn(s, x) == Cardinality({i \in 1..Len(s) : s[i] = x})
UnitNames == [k \in 1..Len(units) |-> units[k].name]
UnitIds == 1..Len(units)
AllDistinct(s) == \A i, j \in 1..Len(s) : i # j => s[i] # s[j]
UnitStep(k) == UnitSend(k) \/ UnitResponse(k)
\* Unit k receives its response and ends with error value e.
UnitEndsWith(k, e) == UnitResponse(k) /\ units'[k].err = e

\* C1: with a nil Config, notifyEvent returns nil at once for every event and
\* no goroutine is ever launched, so no POST is performed.
C1_NilConfigNoop ==
    (~HasConfig /\ pc # "start")
        => (pc = "returned" /\ ret = Nil /\ units = <<>> /\ chNames = <<>>)

C1_Witness ==
    ~HasConfig /\ pc = "returned" /\ ret = Nil /\ units = <<>> /\ event.kind = "addCheck"

\* C2 (state part): for N distinct names that all resolve, notifyEvent
\* returns nil with exactly N units launched, one per name, and every unit
\* that has not ended can take its next step, with either outcome, whatever
\* the other units did.
C2_FanOutState ==
    /\ (pc = "returned" /\ HasConfig /\ KnownKind
          /\ AllDistinct(ConfiguredNames) /\ \A i \in 1..Len(ConfiguredNames) : InMap(ConfiguredNames[i]))
        => (ret = Nil /\ UnitNames = ConfiguredNames)
    /\ \A k \in UnitIds :
          /\ units[k].pc = "launched" => ENABLED UnitSend(k)
          /\ units[k].pc = "posting" => (ENABLED UnitEndsWith(k, Nil) /\ ENABLED UnitEndsWith(k, "failed"))

\* C2 (step part): a step of one unit changes no other unit and not the
\* result of notifyEvent.
C2_FanOutStep ==
    \A k \in UnitIds :
        UnitStep(k) => (/\ \A j \in UnitIds \ {k} : units'[j] = units[j]
                        /\ Len(units') = Len(units)
                        /\ ret' = ret /\ pc' = pc)

\* C2: N distinct resolvable names give exactly N independent units; a
\* failing unit neither stops another unit from posting nor changes its
\* outcome or the value returned.
C2_FanOut == []C2_FanOutState /\ [][C2_FanOutStep]_vars

C2_Witness ==
    /\ pc = "returned" /\ ret = Nil /\ Len(units) = 2
    /\ units[1].name # units[2].name
    /\ units[1].pc = "done" /\ units[1].err = "failed"
    /\ units[2].pc = "done" /\ units[2].err = Nil /\ units[2].attempts = 1

\* C3 (state part): notifyEvent can always take its next step, whatever
\* state the launched units are in.
C3_NeverWaits == pc # "returned" => ENABLED DispatcherNext

\* C3 (step part): a step of notifyEvent performs no POST and advances no
\* unit: the units already launched are left as they are and a new unit
\* starts with no POST made.
C3_NoIO ==
    DispatcherNext =>
        /\ \A k \in UnitIds : units'[k] = units[k]
        /\ \A k \in 1..Len(units') : k > Len(units) => units'[k].attempts = 0

\* C3 amended: notifyEvent returns without waiting for any unit and does no
\* network I/O itself, so whenever it launched a unit it can have returned
\* nil while units are still posting or not yet started.
C3_FireAndForget == []C3_NeverWaits /\ [][C3_NoIO]_vars

\* C3 as stated: for every configuration some state has notifyEvent returned
\* with nil while a unit is still pending.  The units launched are fixed by
\* the configuration and the event, so this requires every nil return to
\* leave at least one unit behind.
C3_Original ==
    (pc = "returned" /\ ret = Nil /\ \A k \in UnitIds : units[k].pc = "launched")
        => Len(units) >= 1

C3_Witness ==
    /\ pc = "returned" /\ ret = Nil /\ Len(units) = 2
    /\ units[1].pc = "posting" /\ units[2].pc = "launched"

\* C4 as stated: the text a unit sends is the rendering of the checklist and
\* item as they were when notifyEvent was called.
C4_TextFixedAtDispatch ==
    \A k \in UnitIds :
        units[k].text # NoText
            => units[k].text
                 = slackMessageText(Ctx, event, Deref(called).checklist, Deref(called).item)

\* C5: for every name of the channel map, as many units are launched as the
\* name occurs in the list of the event's kind.
C5_NoDedup ==
    (pc = "returned" /\ HasConfig /\ KnownKind)
        => \A n \in DOMAIN Config.Channels :
              CountIn(UnitNames, n) = CountIn(ConfiguredNames, n)

C5_Witness ==
    /\ pc = "returned" /\ Len(units) = 2
    /\ units[1].name = units[2].name
    /\ units[1].attempts = 1 /\ units[2].attempts = 1

\* C6: a name that is no key of the channel map gets no unit and does not
\* fail the call: notifyEvent returns nil and the units launched are those of
\* the other names of the list, in order.
C6_MissingChannelSkipped ==
    /\ HasConfig => \A k \in UnitIds : InMap(units[k].name)
    /\ (pc = "returned" /\ HasConfig /\ KnownKind)
          => (ret = Nil /\ UnitNames = SelectSeq(ConfiguredNames, InMap))

C6_Witness ==
    /\ pc = "returned" /\ ret = Nil /\ HasConfig /\ KnownKind
    /\ Len(ConfiguredNames) = 2
    /\ ~InMap(ConfiguredNames[1]) /\ InMap(ConfiguredNames[2])
    /\ Len(units) = 1 /\ units[1].attempts = 1

\* C7 (state part): a unit makes at most one POST, and the value returned
\* for a known kind is nil whatever the units' outcomes.
C7_AtMostOnePost ==
    /\ \A k \in UnitIds :
          /\ units[k].attempts <= 1
          /\ units[k].pc = "done" => units[k].attempts = 1
    /\ (pc = "returned" /\ (KnownKind \/ ~HasConfig)) => ret = Nil

\* C7 (step part): a unit that has ended stays as it is, and the returned
\* value never changes.
C7_NoRetryStep ==
    /\ \A k \in UnitIds : units[k].pc = "done" => units'[k] = units[k]
    /\ pc = "returned" => (pc' = pc /\ ret' = ret)

\* C7: every unit performs at most one POST and then stops, whatever the
\* outcome, and notifyEvent returns nil for every combination of outcomes.
C7_NoRetry == []C7_AtMostOnePost /\ [][C7_NoRetryStep]_vars

C7_Witness ==
    /\ pc = "returned" /\ ret = Nil /\ Len(units) = 2
    /\ \A k \in UnitIds : units[k].pc = "done" /\ units[k].err = "failed" /\ units[k].attempts = 1

\* C8: with a Config, an event whose kind is neither on_check nor
\* on_complete makes notifyEvent return the unknown-event-type error with no
\* unit launched; addCheckEvent and completeEvent never get that error.
C8_UnknownEventKind ==
    /\ (HasConfig /\ ~KnownKind /\ pc # "start")
          => (pc = "returned" /\ ret = "unknown event type" /\ units = <<>>)
    /\ event.kind \in {"addCheck", "complete"} => ret # "unknown event type"

C8_Witness ==
    /\ pc = "returned" /\ ret = "unknown event type" /\ units = <<>>
    /\ HasConfig /\ Len(Config.OnCheck) > 0 /\ InMap(Config.OnCheck[1])

\* ---- the request a unit sends

RECURSIVE JSONUnescape(_)
\* The string a JSON string body denotes.
JSONUnescape(s) ==
    IF s = <<>> THEN <<>>
    ELSE IF Head(s) # "\\" THEN <<Head(s)>> \o JSONUnescape(Tail(s))
    ELSE IF s[2] = "n" THEN <<"\n">> \o JSONUnescape(SubSeq(s, 3, Len(s)))
    ELSE IF s[2] = "u"
         THEN (CASE SubSeq(s, 3, 6) = <<"0", "0", "3", "c">> -> <<"<">>
                 [] SubSeq(s, 3, 6) = <<"0", "0", "3", "e">> -> <<">">>
                 [] SubSeq(s, 3, 6) = <<"0", "0", "2", "6">> -> <<"&">>
                 [] OTHER -> <<"?">>)
              \o JSONUnescape(SubSeq(s, 7, Len(s)))
    ELSE <<s[2]>> \o JSONUnescape(SubSeq(s, 3, Len(s)))

JSONTextPrefix == <<"{", "\"", "t", "e", "x", "t", "\"", ":", "\"">>
\* j is a JSON object with the single field text, holding t.
IsTextObject(j, t) ==
    /\ Len(j) >= Len(JSONTextPrefix) + 2
    /\ SubSeq(j, 1, Len(JSONTextPrefix)) = JSONTextPrefix
    /\ SubSeq(j, Len(j) - 1, Len(j)) = <<"\"", "}">>
    /\ JSONUnescape(SubSeq(j, Len(JSONTextPrefix) + 1, Len(j) - 2)) = t

Sent(k) == units[k].req # NilPtr
Request(k) == Deref(units[k].req)

\* The shape of every request: a POST to the URL of the unit's channel whose
\* form has the one field payload, a JSON object {"text": <rendered text>}.
RequestShape ==
    \A k \in UnitIds :
        Sent(k) =>
            /\ Request(k).method = "POST"
            /\ Request(k).url = Config.Channels[units[k].name].URL
            /\ DOMAIN Request(k).form = {"payload"}
            /\ Len(Request(k).form.payload) = 1
            /\ IsTextObject(Request(k).form.payload[1], units[k].text)

SameText == \A k, j \in UnitIds : (Sent(k) /\ Sent(j)) => units[k].text = units[j].text

\* C11 as stated: every request is a POST to the channel's URL with the one
\* form field payload = {"text": <rendered message>}, and all requests of
\* one notifyEvent call carry the same text.
C11_RequestAndSameText == RequestShape /\ SameText

\* ---- routing, capture, logging, frame

RangeOf(s) == {s[i] : i \in 1..Len(s)}
\* The names of the list that resolve, in order: one per launching iteration.
Resolved == SelectSeq(ConfiguredNames, InMap)

\* C12: a CheckAdded event launches units only for names of Events.OnCheck and
\* a ChecklistCompleted event only for names of Events.OnComplete; when
\* notifyEvent has returned the units are the resolvable names of that list.
C12_RoutingByKind ==
    HasConfig =>
        /\ event.kind = "addCheck" =>
              /\ \A k \in UnitIds : units[k].name \in RangeOf(Config.OnCheck)
              /\ pc = "returned" => UnitNames = SelectSeq(Config.OnCheck, InMap)
        /\ event.kind = "complete" =>
              /\ \A k \in UnitIds : units[k].name \in RangeOf(Config.OnComplete)
              /\ pc = "returned" => UnitNames = SelectSeq(Config.OnComplete, InMap)

C12_Witness ==
    /\ HasConfig /\ event.kind = "addCheck" /\ pc = "returned"
    /\ "b" \in RangeOf(Config.OnComplete) /\ "b" \notin RangeOf(Config.OnCheck) /\ InMap("b")
    /\ Len(units) = 1 /\ units[1].name = "a" /\ units[1].pc = "done"

\* C13: the k-th unit holds, and posts to, the URL of the channel resolved by
\* the iteration that launched it, whatever the loop does afterwards.
C13_OwnChannel ==
    (HasConfig /\ KnownKind) =>
        \A k \in UnitIds :
            /\ units[k].name = Resolved[k]
            /\ units[k].url = Config.Channels[Resolved[k]].URL
            /\ Sent(k) => Request(k).url = Config.Channels[Resolved[k]].URL

C13_Witness ==
    /\ pc = "returned" /\ Len(units) = 2
    /\ units[1].name # units[2].name
    /\ units[1].pc = "posting" /\ units[2].pc = "done"
    /\ Request(1).url # Request(2).url

Logged(k) == units[k].log # NilPtr
LogEntry(k) == Deref(units[k].log)
\* What a log entry carries: the values formatted into it.
EntryNamesChannel(en, u) == \E i \in 1..Len(en.args) : en.args[i].url = u.url
EntryNamesEventKind(en) == \E i \in 1..Len(en.args) : "eventType" \in DOMAIN en.args[i]
EntryNamesError(en) == \E i \in 1..Len(en.args) : en.args[i].kind \in {"status", "error"}

\* Every failed delivery writes exactly one log entry, which carries the
\* underlying error; a delivery that succeeded writes none.
FailureLogged ==
    \A k \in UnitIds :
        /\ units[k].err = "failed" => (Logged(k) /\ EntryNamesError(LogEntry(k)))
        /\ (units[k].pc = "done" /\ units[k].err = Nil) => ~Logged(k)

\* C14 as stated: the log entry of every failed delivery identifies the
\* channel (name or URL), the event kind and the underlying error.
C14_LogContext ==
    \A k \in UnitIds :
        units[k].err = "failed" =>
            /\ Logged(k)
            /\ EntryNamesChannel(LogEntry(k), units[k])
            /\ EntryNamesEventKind(LogEntry(k))
            /\ EntryNamesError(LogEntry(k))

\* C15 (step part): a step of notifyEvent or of a unit leaves the checklist
\* with its Config, the item and the event as they are; a unit's step writes
\* nothing but that unit's own record.
C15_ReadOnlyStep ==
    /\ (DispatcherNext \/ \E k \in UnitIds : UnitStep(k))
          => (checklist' = checklist /\ item' = item /\ event' = event)
    /\ \A k \in UnitIds :
          UnitStep(k) => (/\ \A j \in UnitIds \ {k} : units'[j] = units[j]
                          /\ <<pc, ret, chNames, idx>>' = <<pc, ret, chNames, idx>>)

\* C15: dispatch is read-only on shared data.
C15_ReadOnly == [][C15_ReadOnlyStep]_vars

C15_Witness ==
    /\ pc = "returned" /\ Len(units) = 2
    /\ \A k \in UnitIds : units[k].pc = "done"
    /\ checklist = Deref(called).checklist /\ item = Deref(called).item

\* ---- order of the channel list

\* The loop of notifyEvent run to its end over the list names.
RECURSIVE DispatchLoop(_, _, _, _)
DispatchLoop(config, names, i, us) ==
    IF i > Len(names) THEN us
    ELSE LET r == loopBody(config, names, i, us) IN
         DispatchLoop(r.config, names, r.idx, r.units)

\* notifyEvent as a whole: the value it returns and the units it launches.
Dispatch(cl, ev) ==
    LET b == notifyEventBegin(cl, ev) IN
    IF b.pc = "returned" THEN [ret |-> b.ret, units |-> <<>>]
    ELSE [ret |-> Nil, units |-> DispatchLoop(Deref(cl.Config), b.chNames, 1, <<>>)]

Orderings(n) == {p \in [1..n -> 1..n] : \A i, j \in 1..n : i # j => p[i] # p[j]}
Permute(s, p) == [i \in 1..Len(s) |-> s[p[i]]]
\* The checklist with the list of the event's kind reordered by p.
Reordered(cl, ev, p) ==
    LET c == Deref(cl.Config) IN
    IF eventType(ev) = eventTypeOnCheck
    THEN [cl EXCEPT !.Config = <<[c EXCEPT !.OnCheck = Permute(@, p)]>>]
    ELSE [cl EXCEPT !.Config = <<[c EXCEPT !.OnComplete = Permute(@, p)]>>]

\* The delivery attempt (target URL, payload) unit u makes of the event data.
Attempt(u, cl, it) ==
    LET r == Deref(unitSend(u, Ctx, event, cl, it).req) IN
    [url |-> r.url, payload |-> r.form.payload]
AttemptsOf(us, cl, it) == [k \in 1..Len(us) |-> Attempt(us[k], cl, it)]
BagOf(s) == [x \in RangeOf(s) |-> CountIn(s, x)]

\* The event data a unit can find behind the pointers of the event.
ChecklistData == {[checklist EXCEPT !.Title = t] : t \in ChecklistTitles}
ItemData == {[item EXCEPT !.Title = t] : t \in ItemTitles}

\* For every reordering of the channel list of the event's kind notifyEvent
\* returns the same value and makes the same multiset of attempts.
OrderInvariant ==
    LET d == Dispatch(checklist, event) IN
    \A p \in Orderings(Len(ConfiguredNames)) :
        LET dp == Dispatch(Reordered(checklist, event, p), event) IN
        /\ dp.ret = d.ret
        /\ \A cl \in ChecklistData, it \in ItemData :
              BagOf(AttemptsOf(dp.units, cl, it)) = BagOf(AttemptsOf(d.units, cl, it))

\* The run under way is a run of Dispatch: it has returned that value and
\* launched those units, and each request sent is the attempt of its unit for
\* the event data as they were at the call or as they are now.
RunIsDispatch ==
    LET d == Dispatch(checklist, event) IN
    /\ ret = d.ret
    /\ BagOf([k \in UnitIds |-> units[k].url])
          = BagOf([k \in 1..Len(d.units) |-> d.units[k].url])
    /\ \A k \in UnitIds :
          Sent(k) =>
              \E cl \in {checklist, Deref(called).checklist},
                 it \in {item, Deref(called).item} :
                  [url |-> Request(k).url, payload |-> Request(k).form.payload]
                      = Attempt(d.units[k], cl, it)

\* C16: the order of the names in the channel list of the event's kind does
\* not affect dispatch: every configuration and event a call starts with
\* gives the same returned value and the same multiset of delivery attempts
\* (target URL, payload) under every reordering of that list, and a call that
\* has returned has done what that order-independent result says.
C16_OrderIrrelevant ==
    (HasConfig /\ KnownKind) =>
        /\ pc = "start" => OrderInvariant
        /\ pc = "returned" => RunIsDispatch

C16_Witness ==
    /\ HasConfig /\ KnownKind /\ pc = "returned"
    /\ ConfiguredNames = <<"b", "a">>
    /\ Len(units) = 2 /\ units[1].url # units[2].url
    /\ \A k \in UnitIds : units[k].pc = "done"

\* ---- login and the checklist API

\* What the handlers find in the session of cookie c.
StoredState(c) == sessionGet(c).values.oauthState
StoredUser(c) == sessionGet(c).values.githubUser
Decodes(c) == sessionGet(c).err = NoErr
IsCallback == request.path = "/auth/callback"
StateMatches == <<request.state>> = StoredState(request.cookie)
Status(n) == response.status = n
CallNames == [i \in 1..Len(calls) |-> calls[i].fn]

\* A user gets into the saved session only through a callback whose state is
\* the stored one and whose AuthenticateUser and AddUser both succeeded.
UserOnlyByCallback ==
    (StoredUser(cookie) # NilPtr /\ StoredUser(cookie) # StoredUser(request.cookie)) =>
        /\ IsCallback /\ StateMatches /\ Status(302)
        /\ calls = <<Call("AuthenticateUser", NoErr), Call("AddUser", NoErr)>>

\* The request was refused with status n: no call, the saved session as it was.
RefusedWith(n) == Status(n) /\ calls = <<>> /\ cookie = request.cookie

\* C17 as stated: a user is saved only by a callback with the stored state and
\* both calls succeeding, and every callback whose state differs from the
\* session's (or whose session holds none) is answered 400, with no call and
\* the saved session unchanged.
C17_Original ==
    /\ UserOnlyByCallback
    /\ (IsCallback /\ ~StateMatches) => RefusedWith(400)

\* C17 amended: the same, but the 400 is for a callback whose session cookie
\* decodes or is absent; a callback whose cookie does not decode is answered
\* 500, also with no call and the saved session unchanged.
C17_StateChecked ==
    /\ UserOnlyByCallback
    /\ (IsCallback /\ ~StateMatches /\ Decodes(request.cookie)) => RefusedWith(400)
    /\ (IsCallback /\ ~Decodes(request.cookie)) => RefusedWith(500)

C17_Witness ==
    /\ IsCallback /\ ~StateMatches
    /\ StoredState(request.cookie) # NilPtr /\ request.state \in OAuthStates
    /\ RefusedWith(400)

\* C18: after a callback that succeeded the saved session holds no
\* oauthState; a callback on a saved session without oauthState is refused
\* with 400 whatever its state; and only /auth puts an oauthState into the
\* saved session.
C18_SingleUse ==
    /\ (IsCallback /\ Status(302)) => (cookie.kind = "session" /\ StoredState(cookie) = NilPtr)
    /\ (IsCallback /\ Decodes(request.cookie) /\ StoredState(request.cookie) = NilPtr)
          => RefusedWith(400)
    /\ (StoredState(cookie) # NilPtr /\ StoredState(cookie) # StoredState(request.cookie))
          => (request.path = "/auth" /\ Status(302))

C18_Witness ==
    /\ IsCallback /\ request.state \in OAuthStates
    /\ request.cookie.kind = "session"
    /\ StoredUser(request.cookie) # NilPtr /\ StoredState(request.cookie) = NilPtr
    /\ RefusedWith(400)

IsAPI == request.path \in {"/api/check", "/api/checklist"}
Authenticated(c) == StoredUser(c) # NilPtr /\ Deref(StoredUser(c)).Token # NilPtr

====
